---- MODULE Spec2Model ----
(***************************************************************************)
(* A model of pymixer: Project.mix (src/pymixer/project.py) and            *)
(* merge_midi_objects (src/pymixer/midi.py).                                *)
(*                                                                         *)
(* Times are exact numbers of half seconds (0.5 s is 1), so every product  *)
(* and sum the code forms on them is exact in binary floating point.       *)
(* A sample matrix is numpy's (n_channels, n_samples) array: a sequence of *)
(* rows, each row a sequence of samples.                                   *)
(***************************************************************************)
EXTENDS Integers, Sequences, FiniteSets

VARIABLES
    tracks,        \* Project.tracks: sequence of Track(timeline, start_time)
    frame_rate,    \* Project.frame_rate
    mix_args,      \* arguments of the last Project.mix call
    mix_ret,       \* its outcome: the returned array or the error raised
    midi_objects,  \* the documents handed to merge_midi_objects
    merge_args,    \* the other arguments of the last merge_midi_objects call
    merge_ret,     \* its outcome: the merged document or the error raised
    wav_file,      \* the WAV file handed to read_wav_file
    wav_ret        \* the outcome of read_wav_file: the timeline or the error raised

vars ==
    <<tracks, frame_rate, mix_args, mix_ret, midi_objects, merge_args, merge_ret,
      wav_file, wav_ret>>

mixVars == <<tracks, frame_rate, mix_args, mix_ret>>
mergeVars == <<midi_objects, merge_args, merge_ret>>
wavVars == <<wav_file, wav_ret>>

----------------------------------------------------------------------------
(* Bounds of the model.                                                    *)

MaxTracks == 2      \* tracks of a project
MaxLen == 2         \* samples of a track's timeline
MaxGroups == 2      \* groups of one mix call
MaxGroupSize == 2   \* indices listed in one group
MaxDocs == 2        \* documents of one merge
MaxInstruments == 2 \* instruments of one document
MaxChannels == 3    \* channels of a WAV file

----------------------------------------------------------------------------
(* Python values.                                                          *)

\* Optional[...]: None, or a value.
None == [isNone |-> TRUE, val |-> <<>>]
Some(v) == [isNone |-> FALSE, val |-> v]

\* `x or default` on an optional list: None and the empty list are both falsy.
OrDefault(opt, default) == IF opt.isNone \/ opt.val = <<>> THEN default ELSE opt.val

\* A Python number num/den: den = 1 is an int, den = 2 a float with a half.
Num(n) == [num |-> n, den |-> 1]
Half(n) == [num |-> n, den |-> 2]

\* round(num/den) of Python 3: to the nearest integer, ties to the even one.
PyRound(num, den) ==
    LET q == num \div den
        r == num % den
    IN  IF 2 * r < den THEN q
        ELSE IF 2 * r > den THEN q + 1
        ELSE IF q % 2 = 0 THEN q ELSE q + 1

\* index != int(round(index))
NotIntegral(index) == index.num # index.den * PyRound(index.num, index.den)

\* a < b on numbers num/den with den in {1, 2}
NumLess(a, b) == a.num * b.den < b.num * a.den

RECURSIVE Flatten(_)
\* [index for group in groups for index in group]
Flatten(groups) ==
    IF groups = <<>> THEN <<>> ELSE Head(groups) \o Flatten(Tail(groups))

SeqMax(s) == CHOOSE x \in {s[i] : i \in DOMAIN s} : \A i \in DOMAIN s : s[i] <= x

\* list[i] for an int i of Python: a negative i counts from the end.
PyItem(list, i) == IF i >= 0 THEN list[i + 1] ELSE list[Len(list) + i + 1]

----------------------------------------------------------------------------
(* numpy and sinethesizer helpers used by Project.mix.                     *)

\* np.zeros((rows, n))
Zeros(rows, n) == [r \in 1..rows |-> [j \in 1..n |-> 0]]

\* np.hstack((a, b)) on matrices with equally many rows
HStack(a, b) == [r \in 1..Len(a) |-> a[r] \o b[r]]

\* np.vstack(list of matrices)
RECURSIVE VStack(_)
VStack(ms) == IF ms = <<>> THEN <<>> ELSE Head(ms) \o VStack(Tail(ms))

\* gain * timeline
Scale(gain, m) == [r \in 1..Len(m) |-> [j \in 1..Len(m[r]) |-> gain * m[r][j]]]

\* array.shape[1]
Shape1(m) == Len(m[1])

\* sinethesizer.utils.misc.sum_two_sounds: the shorter sound is padded with
\* zeros on the right to the length of the longer one and the two are added.
SumTwoSounds(first_sound, second_sound) ==
    LET swap == Shape1(first_sound) > Shape1(second_sound)
        short == IF swap THEN second_sound ELSE first_sound
        long == IF swap THEN first_sound ELSE second_sound
        padded == HStack(short, Zeros(Len(short), Shape1(long) - Shape1(short)))
    IN  [r \in 1..Len(long) |-> [j \in 1..Shape1(long) |-> padded[r][j] + long[r][j]]]

----------------------------------------------------------------------------
(* Project.mix                                                             *)

n_channels_per_track == 2

\* int(round(self.frame_rate * seconds)), seconds given in half seconds
Samples(rate, halves) == PyRound(rate * halves, 2)

Raise(kind) == [raised |-> kind, result |-> <<>>]
Return(value) == [raised |-> "", result |-> value]

RECURSIVE MixGroupForgetsGain(_, _, _, _)
\* MixGroup as it would be with `track.timeline` in place of `gain * track.timeline`.
MixGroupForgetsGain(group_data, k, rate, mixed_timeline) ==
    IF k > Len(group_data) THEN mixed_timeline
    ELSE LET track == group_data[k][1]
             current_timeline ==
                 HStack(Zeros(n_channels_per_track, Samples(rate, track.start_time)),
                        track.timeline)
         IN  MixGroupForgetsGain(group_data, k + 1, rate,
                                 SumTwoSounds(mixed_timeline, current_timeline))

RECURSIVE MixGroup(_, _, _, _)
\* The loop of lines 183-188 over group_data[k..], folded into mixed_timeline.
MixGroup(group_data, k, rate, mixed_timeline) ==
    IF k > Len(group_data) THEN mixed_timeline
    ELSE LET track == group_data[k][1]
             gain == group_data[k][2]
             current_timeline ==
                 HStack(Zeros(n_channels_per_track, Samples(rate, track.start_time)),
                        Scale(gain, track.timeline))
         IN  MixGroup(group_data, k + 1, rate,
                      SumTwoSounds(mixed_timeline, current_timeline))

\* One pass of the loop of lines 180-194: the padded timeline of one group.
MixedTimeline(trs, rate, gains, opening_silence, trailing_silence, group_track_indices) ==
    LET group_data == [k \in 1..Len(group_track_indices) |->
                          <<PyItem(trs, group_track_indices[k].num),
                            PyItem(gains, group_track_indices[k].num)>>]
        mixed == MixGroup(group_data, 1, rate, Zeros(n_channels_per_track, 0))
    IN  HStack(HStack(Zeros(n_channels_per_track, Samples(rate, opening_silence)), mixed),
               Zeros(n_channels_per_track, Samples(rate, trailing_silence)))

\* np.zeros raises ValueError on a negative dimension (lines 185, 190, 192).
NegativeDimension(trs, rate, opening_silence, trailing_silence, flat_indices) ==
    \/ Samples(rate, opening_silence) < 0
    \/ Samples(rate, trailing_silence) < 0
    \/ \E k \in DOMAIN flat_indices :
           Samples(rate, PyItem(trs, flat_indices[k].num).start_time) < 0

\* AlignAndStack as it would be if it aligned to the first group's length.
AlignToFirstAndStack(mixed_timelines) ==
    LET max_length == Shape1(mixed_timelines[1])
        aligned_timelines ==
            [g \in DOMAIN mixed_timelines |->
                HStack(mixed_timelines[g],
                       Zeros(n_channels_per_track, max_length - Shape1(mixed_timelines[g])))]
    IN  VStack(aligned_timelines)

\* Lines 196-205: align the groups' timelines and stack them.
AlignAndStack(mixed_timelines) ==
    LET max_length == SeqMax([g \in DOMAIN mixed_timelines |-> Shape1(mixed_timelines[g])])
        aligned_timelines ==
            [g \in DOMAIN mixed_timelines |->
                HStack(mixed_timelines[g],
                       Zeros(n_channels_per_track, max_length - Shape1(mixed_timelines[g])))]
    IN  VStack(aligned_timelines)

\* GainsMismatch as it would be if the check were `len(gains) < len(self.tracks)`.
GainsTooFew(gains, trs) == Len(gains) < Len(trs)

\* Line 168: len(gains) != len(self.tracks)
GainsMismatch(gains, trs) == Len(gains) # Len(trs)

ProjectMix(trs, rate, gains_arg, opening_silence, trailing_silence, groups_arg) ==
    LET gains == OrDefault(gains_arg, [i \in 1..Len(trs) |-> 1])
        grouped_track_indices ==
            OrDefault(groups_arg, <<[i \in 1..Len(trs) |-> Num(i - 1)]>>)
        flat_indices == Flatten(grouped_track_indices)
    IN  IF GainsMismatch(gains, trs) THEN Raise("gains_length")
        ELSE IF \E k \in DOMAIN flat_indices : NotIntegral(flat_indices[k])
            THEN Raise("non_integer_index")
        ELSE IF flat_indices = <<>> THEN Raise("min_of_empty_sequence")
        ELSE IF \E k \in DOMAIN flat_indices :
                    \/ NumLess(flat_indices[k], Num(-Len(trs)))
                    \/ ~NumLess(flat_indices[k], Num(Len(trs)))
            THEN Raise("index_out_of_range")
        ELSE IF \E k \in DOMAIN flat_indices : flat_indices[k].den # 1
            THEN Raise("list_index_type")  \* self.tracks[1.0]: TypeError at line 181
        ELSE IF NegativeDimension(trs, rate, opening_silence, trailing_silence, flat_indices)
            THEN Raise("negative_dimensions")
        ELSE Return(AlignAndStack(
                 [g \in DOMAIN grouped_track_indices |->
                     MixedTimeline(trs, rate, gains, opening_silence, trailing_silence,
                                   grouped_track_indices[g])]))

----------------------------------------------------------------------------
(* merge_midi_objects                                                      *)

\* pretty_midi.Note, pretty_midi.ControlChange, pretty_midi.PitchBend
Note(start, end, pitch, velocity) ==
    [start |-> start, end |-> end, pitch |-> pitch, velocity |-> velocity]
ControlChange(number, value, time) == [number |-> number, value |-> value, time |-> time]
PitchBend(pitch, time) == [pitch |-> pitch, time |-> time]

\* pretty_midi.Instrument(program, is_drum, name): a new instrument has no events.
Instrument(program, is_drum, name) ==
    [program |-> program, is_drum |-> is_drum, name |-> name,
     notes |-> <<>>, control_changes |-> <<>>, pitch_bends |-> <<>>]

\* The instrument names of the model in the order of Python's string comparison.
NameOrder == <<"", "bass", "lead">>
NameRank(name) == CHOOSE i \in DOMAIN NameOrder : NameOrder[i] = name

SeqMin(s) == CHOOSE x \in {s[i] : i \in DOMAIN s} : \A i \in DOMAIN s : x <= s[i]

\* SoundingNotes as it would be without `if note.velocity > 0`.
NotesOfAnyVelocity(notes) == notes

RECURSIVE SoundingNotes(_)
\* [note for note in notes if note.velocity > 0]
SoundingNotes(notes) ==
    IF notes = <<>> THEN <<>>
    ELSE (IF Head(notes).velocity > 0 THEN <<Head(notes)>> ELSE <<>>)
             \o SoundingNotes(Tail(notes))

RECURSIVE ObjectNotes(_, _)
\* Lines 55-59: the notes of velocity > 0 of the instruments j.. of a document.
ObjectNotes(midi_object, j) ==
    IF j > Len(midi_object) THEN <<>>
    ELSE SoundingNotes(midi_object[j].notes) \o ObjectNotes(midi_object, j + 1)

\* Lines 77-82
ShiftNote(note, shift) ==
    Note(note.start + shift, note.end + shift, note.pitch, note.velocity)

\* Lines 86-90
ShiftControlChange(control_change, shift) ==
    ControlChange(control_change.number, control_change.value, control_change.time + shift)

\* Line 68: instrument_name_to_program.get(instrument.name) or instrument.program
OutputProgram(name_to_program, instrument) ==
    IF instrument.name \in DOMAIN name_to_program /\ name_to_program[instrument.name] # 0
    THEN name_to_program[instrument.name]
    ELSE instrument.program

\* Lookup as it would be if only the instrument added last were compared.
LookupLast(instruments, name) ==
    IF instruments # <<>> /\ instruments[Len(instruments)].name = name
    THEN Len(instruments) ELSE 0

\* The position in the dict `instruments` (kept in insertion order) of a name, 0 if absent.
Lookup(instruments, name) ==
    IF \E i \in DOMAIN instruments : instruments[i].name = name
    THEN CHOOSE i \in DOMAIN instruments : instruments[i].name = name
    ELSE 0

\* Lines 66-91: one instrument of a document is folded into `instruments`.
MergeInstrument(instruments, instrument, shift, name_to_program) ==
    LET known == Lookup(instruments, instrument.name)
        with_entry ==
            IF known = 0
            THEN Append(instruments,
                        Instrument(OutputProgram(name_to_program, instrument),
                                   instrument.is_drum, instrument.name))
            ELSE instruments
        at == IF known = 0 THEN Len(with_entry) ELSE known
        output_instrument == with_entry[at]
        sounding == SoundingNotes(instrument.notes)
        notes == output_instrument.notes
                     \o [i \in DOMAIN sounding |-> ShiftNote(sounding[i], shift)]
        control_changes ==
            output_instrument.control_changes
                \o [i \in DOMAIN instrument.control_changes |->
                       ShiftControlChange(instrument.control_changes[i], shift)]
    IN  [with_entry EXCEPT ![at] = [output_instrument EXCEPT
                                       !.notes = notes,
                                       !.control_changes = control_changes]]

\* NotName as it would be if any name, the empty one too, were accepted.
AnyNameAccepted(name) == FALSE

\* Line 64: `not instrument.name` (a name is a string, the empty one is falsy)
NotName(name) == name = ""

RECURSIVE MergeInstruments(_, _, _, _, _)
\* The loop of lines 63-91 over the instruments j.. of a document.
MergeInstruments(instruments, midi_object, j, shift, name_to_program) ==
    IF j > Len(midi_object) THEN [raised |-> "", instruments |-> instruments]
    ELSE IF NotName(midi_object[j].name)
        THEN [raised |-> "unnamed_instrument", instruments |-> <<>>]
    ELSE MergeInstruments(
             MergeInstrument(instruments, midi_object[j], shift, name_to_program),
             midi_object, j + 1, shift, name_to_program)

\* ShiftFor as it would be without `- object_start_time`.
ShiftIgnoringStart(current_time, caesura_in_sec, object_start_time) ==
    current_time + caesura_in_sec

\* Line 62: shift = current_time + caesura_in_sec - object_start_time
ShiftFor(current_time, caesura_in_sec, object_start_time) ==
    current_time + caesura_in_sec - object_start_time

\* Advance as it would be without `+ caesura_in_sec`.
AdvanceIgnoringCaesura(current_time, object_start_time, object_end_time, caesura_in_sec) ==
    current_time + object_end_time - object_start_time

\* Line 92: current_time += object_end_time - object_start_time + caesura_in_sec
Advance(current_time, object_start_time, object_end_time, caesura_in_sec) ==
    current_time + object_end_time - object_start_time + caesura_in_sec

RECURSIVE MergeObjects(_, _, _, _, _, _)
\* The loop of lines 54-92 over the documents k.. and their caesuras.
MergeObjects(objects, caesuras, name_to_program, k, instruments, current_time) ==
    IF k > Len(objects)
    THEN [raised |-> "", instruments |-> instruments, current_time |-> current_time]
    ELSE LET object_notes == ObjectNotes(objects[k], 1)
         IN  IF object_notes = <<>>   \* min() of an empty sequence raises ValueError
             THEN [raised |-> "empty_document", instruments |-> <<>>, current_time |-> 0]
             ELSE LET object_start_time ==
                          SeqMin([i \in DOMAIN object_notes |-> object_notes[i].start])
                      object_end_time ==
                          SeqMax([i \in DOMAIN object_notes |-> object_notes[i].end])
                      shift == ShiftFor(current_time, caesuras[k], object_start_time)
                      merged == MergeInstruments(instruments, objects[k], 1, shift,
                                                 name_to_program)
                  IN  IF merged.raised # ""
                      THEN [raised |-> merged.raised, instruments |-> <<>>,
                            current_time |-> 0]
                      ELSE MergeObjects(objects, caesuras, name_to_program, k + 1,
                                        merged.instruments,
                                        Advance(current_time, object_start_time,
                                                object_end_time, caesuras[k]))

\* NoteKeyLess as it would be with key=lambda x: x.start.
NoteStartLess(x, y) == x.start < y.start

\* (x.start, x.pitch) < (y.start, y.pitch)
NoteKeyLess(x, y) == x.start < y.start \/ (x.start = y.start /\ x.pitch < y.pitch)

RECURSIVE InsertNote(_, _)
\* A sorted list with x put after every note whose key is not greater than x's.
InsertNote(sorted, x) ==
    IF sorted = <<>> THEN <<x>>
    ELSE IF NoteKeyLess(x, Head(sorted)) THEN <<x>> \o sorted
    ELSE <<Head(sorted)>> \o InsertNote(Tail(sorted), x)

RECURSIVE SortNotes(_, _)
\* Line 111: notes.sort(key=lambda x: (x.start, x.pitch)), a stable sort.
SortNotes(notes, sorted) ==
    IF notes = <<>> THEN sorted ELSE SortNotes(Tail(notes), InsertNote(sorted, Head(notes)))

RECURSIVE InsertByName(_, _)
InsertByName(sorted, x) ==
    IF sorted = <<>> THEN <<x>>
    ELSE IF NameRank(x.name) < NameRank(Head(sorted).name) THEN <<x>> \o sorted
    ELSE <<Head(sorted)>> \o InsertByName(Tail(sorted), x)

RECURSIVE SortByName(_, _)
\* Line 110: sorted(instruments.items(), key=lambda x: x[0])
SortByName(instruments, sorted) ==
    IF instruments = <<>> THEN sorted
    ELSE SortByName(Tail(instruments), InsertByName(sorted, Head(instruments)))

\* Finish as it would be without the trailing control change.
FinishWithoutControlChange(instrument, trailing_silence_note, trailing_silence_control_change) ==
    [instrument EXCEPT
        !.notes = Append(SortNotes(instrument.notes, <<>>), trailing_silence_note)]

\* Lines 110-113: an instrument as it is put into the merged document.
Finish(instrument, trailing_silence_note, trailing_silence_control_change) ==
    [instrument EXCEPT
        !.notes = Append(SortNotes(instrument.notes, <<>>), trailing_silence_note),
        !.control_changes = Append(instrument.control_changes,
                                   trailing_silence_control_change)]

\* CaesurasMismatch as it would be if one caesura per document were wanted.
CaesurasNotOnePerObject(caesuras, objects) == Len(caesuras) # Len(objects)

\* Line 44: len(caesuras_in_sec) != len(midi_objects) - 1
CaesurasMismatch(caesuras, objects) == Len(caesuras) # Len(objects) - 1

MergeMidiObjects(objects, opening_silence_in_sec, trailing_silence_in_sec, caesuras_arg, name_to_program_arg) ==
    LET given == IF caesuras_arg.isNone
                 THEN [i \in 1..(Len(objects) - 1) |-> 0]
                 ELSE caesuras_arg.val
        caesuras_in_sec == <<opening_silence_in_sec>> \o given
        name_to_program == OrDefault(name_to_program_arg, <<>>)
        loop == MergeObjects(objects, caesuras_in_sec, name_to_program, 1, <<>>, 0)
        trailing_silence_note ==
            Note(loop.current_time, loop.current_time + trailing_silence_in_sec, 1, 0)
        trailing_silence_control_change ==
            ControlChange(7, 0, loop.current_time + trailing_silence_in_sec)
        by_name == SortByName(loop.instruments, <<>>)
    IN  IF CaesurasMismatch(given, objects) THEN Raise("caesuras_length")
        ELSE IF loop.raised # "" THEN Raise(loop.raised)
        ELSE Return([i \in DOMAIN by_name |->
                        Finish(by_name[i], trailing_silence_note,
                               trailing_silence_control_change)])

----------------------------------------------------------------------------
(* read_wav_file                                                           *)

\* A numpy array: its shape and its items, nested by axis.
Array(shape, data) == [shape |-> shape, data |-> data]

\* scipy.io.wavfile.read: the frame rate of the file and its samples, of shape
\* (n_samples,) for a file of one channel and (n_samples, n_channels) otherwise.
WavfileRead(file) ==
    [frame_rate |-> file.frame_rate,
     timeline |->
        IF file.n_channels = 1
        THEN Array(<<Len(file.frames)>>, [t \in DOMAIN file.frames |-> file.frames[t][1]])
        ELSE Array(<<Len(file.frames), file.n_channels>>, file.frames)]

\* timeline.ndim
NDim(timeline) == Len(timeline.shape)

\* timeline.T: the axes reversed; an array of one axis is left as it is.
Transpose(timeline) ==
    IF NDim(timeline) = 1 THEN timeline
    ELSE Array(<<timeline.shape[2], timeline.shape[1]>>,
               [c \in 1..timeline.shape[2] |->
                   [t \in 1..timeline.shape[1] |-> timeline.data[t][c]]])

\* np.reshape(timeline, (1, -1)) of an array of one axis
ReshapeToRow(timeline) == Array(<<1, timeline.shape[1]>>, <<timeline.data>>)

\* np.vstack((timeline, timeline))
StackTwice(timeline) ==
    Array(<<2 * timeline.shape[1], timeline.shape[2]>>, VStack(<<timeline.data, timeline.data>>))

\* Line 34: frame_rate != expected_frame_rate
FrameRateDiffers(rate, expected_frame_rate) == rate # expected_frame_rate

ReadWavFile(file, expected_frame_rate) ==
    LET read == WavfileRead(file)
        transposed == Transpose(read.timeline)
        reshaped == IF NDim(transposed) = 1 THEN ReshapeToRow(transposed) ELSE transposed
        stacked == IF reshaped.shape[1] = 1 THEN StackTwice(reshaped) ELSE reshaped
    IN  IF FrameRateDiffers(read.frame_rate, expected_frame_rate)
        THEN Raise("frame_rate")
        ELSE Return(stacked)

----------------------------------------------------------------------------
(* The projects and the calls of the model.                                *)

SeqsUpTo(S, n) == UNION {[1..k -> S] : k \in 0..n}

\* A two-channel timeline of n samples; the two channels differ.
Ramp(n) == <<[j \in 1..n |-> j], [j \in 1..n |-> 10 + j]>>

StartTimes == {0, 2}         \* 0 s and 1 s
FrameRates == {1, 3}
OpeningSilences == {0, 3}    \* 1.5 s is 2 samples at rate 1 and 4 samples at rate 3
TrailingSilences == {0, 1}   \* 0.5 s is 0 samples at rate 1 and 2 samples at rate 3

TrackSet == {[timeline |-> Ramp(n), start_time |-> t] : n \in 0..MaxLen, t \in StartTimes}

MixArgs(gains, opening_silence, trailing_silence, groups) ==
    [gains |-> gains, opening_silence |-> opening_silence,
     trailing_silence |-> trailing_silence, grouped_track_indices |-> groups]

NotCalled == [raised |-> "not_called", result |-> <<>>]
DefaultMixArgs == MixArgs(None, 0, 0, None)
DefaultMergeArgs ==
    [opening_silence_in_sec |-> 0, trailing_silence_in_sec |-> 0,
     caesuras_in_sec |-> None, instrument_name_to_program |-> None]
NoWavFile == [frame_rate |-> 0, n_channels |-> 0, frames |-> <<>>]

InitMix ==
    /\ tracks \in SeqsUpTo(TrackSet, MaxTracks)
    /\ frame_rate \in FrameRates
    /\ mix_args = DefaultMixArgs
    /\ mix_ret = NotCalled
    /\ midi_objects = <<>>
    /\ merge_args = DefaultMergeArgs
    /\ merge_ret = NotCalled
    /\ wav_file = NoWavFile
    /\ wav_ret = NotCalled

\* Group lists whose indices are ints in [-1, n) (the empty list of groups too).
ValidGroups(n) ==
    SeqsUpTo(SeqsUpTo({Num(i) : i \in (IF n = 0 THEN 0 ELSE -1)..(n - 1)}, MaxGroupSize),
             MaxGroups)

\* Calls with one gain per track, or no gains.
ContentCalls(n) ==
    {MixArgs(g, o, t, gr) :
        g \in {None, Some([i \in 1..n |-> i + 1])},
        o \in OpeningSilences, t \in TrailingSilences,
        gr \in {None} \cup {Some(v) : v \in ValidGroups(n)}}

\* Project.mix reads the project and changes nothing of it: a second call starts
\* from the same project, so a behaviour makes one call.
DoMix(a) ==
    /\ mix_args' = a
    /\ mix_ret' = ProjectMix(tracks, frame_rate, a.gains, a.opening_silence,
                             a.trailing_silence, a.grouped_track_indices)
    /\ UNCHANGED <<tracks, frame_rate, mergeVars, wavVars>>

Mix == mix_ret = NotCalled /\ \E a \in ContentCalls(Len(tracks)) : DoMix(a)

NextMix == Mix

SpecMix == InitMix /\ [][NextMix]_vars

\* Calls with any gains list of up to MaxTracks + 1 gains, or none.
GainsCalls ==
    {MixArgs(g, 0, 0, gr) :
        g \in {None} \cup {Some(v) : v \in SeqsUpTo({2, 3}, MaxTracks + 1)},
        gr \in {None, Some(<<<<Num(0)>>>>)}}

MixAnyGains == mix_ret = NotCalled /\ \E a \in GainsCalls : DoMix(a)

NextMixGains == MixAnyGains

SpecMixGains == InitMix /\ [][NextMixGains]_vars

\* Indices around the valid range [-n, n), and the floats 0.0 and 0.5.
IndexSet(n) == {Num(i) : i \in (-n - 1)..n} \cup {Half(0), Half(1)}

\* Calls with any list of groups over IndexSet, or none.
GroupsCalls(n) ==
    {MixArgs(None, 0, 0, gr) :
        gr \in {None} \cup
               {Some(v) : v \in SeqsUpTo(SeqsUpTo(IndexSet(n), MaxGroupSize), MaxGroups)}}

\* Projects of one or more distinguishable tracks.
InitMixGroups ==
    /\ tracks \in SeqsUpTo({[timeline |-> Ramp(1), start_time |-> 0],
                             [timeline |-> Ramp(2), start_time |-> 2]}, MaxTracks)
    /\ tracks # <<>>
    /\ frame_rate \in FrameRates
    /\ mix_args = DefaultMixArgs
    /\ mix_ret = NotCalled
    /\ midi_objects = <<>>
    /\ merge_args = DefaultMergeArgs
    /\ merge_ret = NotCalled
    /\ wav_file = NoWavFile
    /\ wav_ret = NotCalled

MixAnyGroups == mix_ret = NotCalled /\ \E a \in GroupsCalls(Len(tracks)) : DoMix(a)

NextMixGroups == MixAnyGroups

SpecMixGroups == InitMixGroups /\ [][NextMixGroups]_vars

----------------------------------------------------------------------------
(* The documents and the calls of merge_midi_objects.                      *)

\* An input instrument.
InputInstrument(name, notes, control_changes, pitch_bends) ==
    [program |-> 5, is_drum |-> FALSE, name |-> name,
     notes |-> notes, control_changes |-> control_changes, pitch_bends |-> pitch_bends]

\* Note lists: silent notes only; a silent note before a sounding one; three
\* sounding notes out of (start, pitch) order, the last of no duration.
NoteLists ==
    {<<Note(0, 2, 60, 0)>>,
     <<Note(0, 1, 62, 0), Note(1, 3, 60, 80)>>,
     <<Note(2, 4, 64, 90), Note(2, 3, 60, 80), Note(4, 4, 62, 80)>>}

NoteInstruments ==
    {InputInstrument(name, notes, <<>>, <<>>) : name \in {"bass", "lead"}, notes \in NoteLists}
        \cup {InputInstrument("", <<Note(1, 3, 60, 80)>>, <<>>, <<>>)}

\* Instruments with control changes and pitch bends before, within and after
\* the sounding notes, and one without a sounding note.
EventVariants ==
    {[notes |-> <<Note(0, 1, 1, 0), Note(1, 3, 60, 80)>>,
      control_changes |-> <<>>, pitch_bends |-> <<>>],
     [notes |-> <<Note(1, 3, 60, 80)>>,
      control_changes |-> <<ControlChange(64, 127, 0), ControlChange(64, 0, 2)>>,
      pitch_bends |-> <<PitchBend(100, 2)>>],
     [notes |-> <<Note(1, 3, 60, 80)>>,
      control_changes |-> <<ControlChange(7, 0, 5)>>, pitch_bends |-> <<>>],
     [notes |-> <<>>,
      control_changes |-> <<ControlChange(7, 0, 3)>>, pitch_bends |-> <<PitchBend(-100, 1)>>]}

EventInstruments ==
    {InputInstrument(name, v.notes, v.control_changes, v.pitch_bends) :
        name \in {"bass", "lead"}, v \in EventVariants}

MergeArgs(opening, trailing, caesuras, name_to_program) ==
    [opening_silence_in_sec |-> opening, trailing_silence_in_sec |-> trailing,
     caesuras_in_sec |-> caesuras, instrument_name_to_program |-> name_to_program]

InitMerge(instruments) ==
    /\ midi_objects \in SeqsUpTo(SeqsUpTo(instruments, MaxInstruments), MaxDocs)
    /\ merge_args = DefaultMergeArgs
    /\ merge_ret = NotCalled
    /\ wav_file = NoWavFile
    /\ wav_ret = NotCalled
    /\ tracks = <<>>
    /\ frame_rate = 1
    /\ mix_args = DefaultMixArgs
    /\ mix_ret = NotCalled

CaesuraValues == {-3, 1}
TrailingValues == {-1, 0, 2}

\* Calls with one caesura between any two successive documents, or no list.
SequentialCalls(n) ==
    {MergeArgs(o, t, c, None) :
        o \in {0, 1}, t \in TrailingValues,
        c \in {None} \cup {Some([i \in 1..(n - 1) |-> g]) : g \in CaesuraValues}}

\* merge_midi_objects builds a new document from its arguments and changes
\* none of them: a behaviour makes one call.
DoMerge(a) ==
    /\ merge_args' = a
    /\ merge_ret' = MergeMidiObjects(midi_objects, a.opening_silence_in_sec,
                                     a.trailing_silence_in_sec, a.caesuras_in_sec,
                                     a.instrument_name_to_program)
    /\ UNCHANGED <<midi_objects, mixVars, wavVars>>

Merge == merge_ret = NotCalled /\ \E a \in SequentialCalls(Len(midi_objects)) : DoMerge(a)

NextMerge == Merge

SpecMerge == InitMerge(NoteInstruments) /\ [][NextMerge]_vars

SpecMergeEvents == InitMerge(EventInstruments) /\ [][NextMerge]_vars

\* Documents of at most one instrument, with and without a sounding note.
InitMergeGaps ==
    /\ midi_objects \in
          SeqsUpTo(SeqsUpTo({InputInstrument("lead", <<Note(1, 3, 60, 80)>>, <<>>, <<>>),
                             InputInstrument("bass", <<Note(0, 2, 60, 0)>>, <<>>, <<>>)}, 1),
                   MaxDocs)
    /\ merge_args = DefaultMergeArgs
    /\ merge_ret = NotCalled
    /\ wav_file = NoWavFile
    /\ wav_ret = NotCalled
    /\ tracks = <<>>
    /\ frame_rate = 1
    /\ mix_args = DefaultMixArgs
    /\ mix_ret = NotCalled

\* Calls with any list of up to MaxDocs caesuras, or no list.
CaesuraCalls ==
    {MergeArgs(0, 0, c, None) :
        c \in {None} \cup {Some(v) : v \in SeqsUpTo(CaesuraValues \cup {0}, MaxDocs)}}

MergeAnyCaesuras == merge_ret = NotCalled /\ \E a \in CaesuraCalls : DoMerge(a)

NextMergeGaps == MergeAnyCaesuras

SpecMergeGaps == InitMergeGaps /\ [][NextMergeGaps]_vars

\* Instruments with and without a name, with and without a sounding note.
ErrorInstruments ==
    {InputInstrument(name, notes, <<>>, <<>>) :
        name \in {"", "lead"}, notes \in {<<Note(0, 2, 60, 0)>>, <<Note(1, 3, 60, 80)>>}}
        \cup {InputInstrument("bass", <<>>, <<>>, <<>>)}

SpecMergeErrors == InitMerge(ErrorInstruments) /\ [][NextMergeGaps]_vars

\* Instruments of either program and kind, each with one sounding note.
ProgramInstruments ==
    {[InputInstrument(name, <<Note(1, 3, 60, 80)>>, <<>>, <<>>)
         EXCEPT !.program = program, !.is_drum = is_drum] :
        name \in {"bass", "lead"}, program \in {0, 5}, is_drum \in BOOLEAN}

\* instrument_name_to_program: no mapping, an empty one, and mappings of one
\* or both names to the first, to some and to the last General MIDI program.
ProgramMaps ==
    {None, Some(<<>>)}
        \cup {Some([name \in names |-> program]) :
                 names \in {{"lead"}, {"bass", "lead"}}, program \in {0, 7, 127}}

ProgramCalls == {MergeArgs(0, 0, None, m) : m \in ProgramMaps}

MergeWithPrograms == merge_ret = NotCalled /\ \E a \in ProgramCalls : DoMerge(a)

NextMergePrograms == MergeWithPrograms

SpecMergePrograms == InitMerge(ProgramInstruments) /\ [][NextMergePrograms]_vars

----------------------------------------------------------------------------
(* The files and the calls of read_wav_file.                               *)

SampleValues == {-1, 1}

\* WAV files of n channels and of up to MaxLen frames.
WavFilesOf(n) ==
    {[frame_rate |-> rate, n_channels |-> n, frames |-> frames] :
        rate \in FrameRates,
        frames \in SeqsUpTo([1..n -> SampleValues], MaxLen)}
WavFiles == UNION {WavFilesOf(n) : n \in 1..MaxChannels}

InitWav ==
    /\ wav_file \in WavFiles
    /\ wav_ret = NotCalled
    /\ frame_rate \in FrameRates
    /\ tracks = <<>>
    /\ mix_args = DefaultMixArgs
    /\ mix_ret = NotCalled
    /\ midi_objects = <<>>
    /\ merge_args = DefaultMergeArgs
    /\ merge_ret  = NotCalled

\* Project._make_tracks reads a file with the frame rate of the project; the
\* file is not changed.
ReadWav ==
    /\ wav_ret = NotCalled
    /\ wav_ret' = ReadWavFile(wav_file, frame_rate)
    /\ UNCHANGED <<wav_file, mixVars, mergeVars>>

NextWav == ReadWav

SpecWav == InitWav /\ [][NextWav]_vars

----------------------------------------------------------------------------
(* Claims about Project.mix.                                               *)

MixReturned == mix_ret.raised = ""

\* The gains and the groups a call works with: absent ones are the defaults
\* of the docstring (unit gains, one group of all tracks); indices as ints.
CallGains ==
    IF mix_args.gains.isNone \/ mix_args.gains.val = <<>>
    THEN [i \in 1..Len(tracks) |-> 1] ELSE mix_args.gains.val
CallGroups ==
    IF mix_args.grouped_track_indices.isNone \/ mix_args.grouped_track_indices.val = <<>>
    THEN <<[i \in 1..Len(tracks) |-> i - 1]>>
    ELSE [g \in DOMAIN mix_args.grouped_track_indices.val |->
             [k \in DOMAIN mix_args.grouped_track_indices.val[g] |->
                 mix_args.grouped_track_indices.val[g][k].num]]

\* The 1-based position in `tracks` of index i (a negative i counts from the end).
Position(i) == IF i < 0 THEN Len(tracks) + i + 1 ELSE i + 1
OffsetSamples(i) == PyRound(frame_rate * tracks[Position(i)].start_time, 2)
OpeningSamples == PyRound(frame_rate * mix_args.opening_silence, 2)
TrailingSamples == PyRound(frame_rate * mix_args.trailing_silence, 2)
TrackLength(i) == Len(tracks[Position(i)].timeline[1])

\* Sample q (0-based) of channel c of track i; 0 outside the track's samples.
TrackSample(i, c, q) ==
    IF q >= 0 /\ q < TrackLength(i) THEN tracks[Position(i)].timeline[c][q + 1] ELSE 0

RECURSIVE GroupSum(_, _, _, _)
\* Sum over the listings group[k..] of gain * sample at output position p (0-based).
GroupSum(group, k, c, p) ==
    IF k > Len(group) THEN 0
    ELSE CallGains[Position(group[k])]
             * TrackSample(group[k], c, p - OpeningSamples - OffsetSamples(group[k]))
         + GroupSum(group, k + 1, c, p)

SetMax(S) == CHOOSE x \in S : \A y \in S : y <= x

\* C1: after a mix that returned, for every group g, channel c of its pair and
\* output position p, the sample is the sum over the indices listed in g (once
\* per listing) of gain[i] * track[i] at p - opening_samples - offset_i, a track
\* contributing 0 outside its samples.
C1_MixIsGainWeightedSum ==
    MixReturned =>
        \A g \in DOMAIN CallGroups : \A c \in 1..2 :
            LET row == mix_ret.result[2 * (g - 1) + c]
            IN  \A p \in 0..(Len(row) - 1) :
                    row[p + 1] = GroupSum(CallGroups[g], 1, c, p)

\* Two different tracks of one group both sound at one output position, one of
\* them delayed by its start time and scaled by a gain other than 1.
C1_Witness ==
    /\ MixReturned
    /\ \E g \in DOMAIN CallGroups : \E k1, k2 \in DOMAIN CallGroups[g] :
          \E p \in 0..(Len(mix_ret.result[1]) - 1) :
            LET i1 == CallGroups[g][k1]
                i2 == CallGroups[g][k2]
            IN  /\ Position(i1) # Position(i2)
                /\ OffsetSamples(i1) # OffsetSamples(i2)
                /\ OpeningSamples > 0
                /\ CallGains[Position(i1)] > 1
                /\ TrackSample(i1, 1, p - OpeningSamples - OffsetSamples(i1)) # 0
                /\ TrackSample(i2, 1, p - OpeningSamples - OffsetSamples(i2)) # 0

\* The end of the content of a group: the latest end of a delayed track, 0 if empty.
GroupContent(group) ==
    SetMax({0} \cup {OffsetSamples(group[k]) + TrackLength(group[k]) : k \in DOMAIN group})

ExpectedLength(groups) ==
    SetMax({OpeningSamples + GroupContent(groups[g]) + TrailingSamples : g \in DOMAIN groups})

Permutations(n) == {f \in [1..n -> 1..n] : \A a, b \in 1..n : f[a] = f[b] => a = b}

\* The same call with the groups listed in the order f.
Reordered(f) ==
    ProjectMix(tracks, frame_rate, mix_args.gains, mix_args.opening_silence,
               mix_args.trailing_silence,
               Some([g \in DOMAIN CallGroups |-> [k \in DOMAIN CallGroups[f[g]] |->
                                                     Num(CallGroups[f[g]][k])]]))

MixCalled == mix_ret # NotCalled

GainsSupplied == ~mix_args.gains.isNone

FlatIndices ==
    IF mix_args.grouped_track_indices.isNone \/ mix_args.grouped_track_indices.val = <<>>
    THEN [i \in 1..Len(tracks) |-> Num(i - 1)]
    ELSE Flatten(mix_args.grouped_track_indices.val)

\* An index that is not an integer, or lies outside [-len(tracks), len(tracks)).
BadIndex(index) ==
    \/ index.den # 1
    \/ index.num < -Len(tracks)
    \/ index.num >= Len(tracks)

IndexErrors == {"non_integer_index", "index_out_of_range", "list_index_type"}

\* C9 as stated: with valid gains, mix fails with an index error iff some
\* flattened index is not an integer or lies outside [-len(tracks), len(tracks));
\* every other list of groups, empty groups included, is accepted, a negative
\* index i selecting track len(tracks) + i.
C9_IndexErrorIffBadIndex ==
    (MixCalled /\ mix_ret.raised # "gains_length") =>
        /\ (mix_ret.raised \in IndexErrors)
              <=> (\E k \in DOMAIN FlatIndices : BadIndex(FlatIndices[k]))
        /\ (\A k \in DOMAIN FlatIndices : ~BadIndex(FlatIndices[k])) =>
              (MixReturned /\ C1_MixIsGainWeightedSum)

----------------------------------------------------------------------------
(* Claims about merge_midi_objects.                                        *)

MergeReturned == merge_ret.raised = ""

Range(s) == {s[i] : i \in DOMAIN s}
SetMin(S) == CHOOSE x \in S : \A y \in S : x <= y

\* The gaps of the call: gap i lies between documents i and i + 1.
Gaps ==
    IF merge_args.caesuras_in_sec.isNone
    THEN [i \in 1..(Len(midi_objects) - 1) |-> 0]
    ELSE merge_args.caesuras_in_sec.val

\* The sounding notes of document k, and its start and end.
DocSounding(k) ==
    UNION {{n \in Range(midi_objects[k][j].notes) : n.velocity > 0} :
              j \in DOMAIN midi_objects[k]}
DocStart(k) == SetMin({n.start : n \in DocSounding(k)})
DocEnd(k) == SetMax({n.end : n \in DocSounding(k)})

RECURSIVE SumDurations(_)
\* The sum of doc_end - doc_start over the documents 1..k.
SumDurations(k) == IF k = 0 THEN 0 ELSE DocEnd(k) - DocStart(k) + SumDurations(k - 1)

RECURSIVE SumGaps(_)
\* The sum of the gaps 1..k.
SumGaps(k) == IF k = 0 THEN 0 ELSE Gaps[k] + SumGaps(k - 1)

\* shift_k of document k (documents counted from 1).
ShiftOf(k) ==
    merge_args.opening_silence_in_sec + SumDurations(k - 1) + SumGaps(k - 1) - DocStart(k)

\* The final value of the running cursor.
FinalTime ==
    merge_args.opening_silence_in_sec + SumDurations(Len(midi_objects))
        + SumGaps(Len(midi_objects) - 1)

InputNames ==
    UNION {{midi_objects[k][j].name : j \in DOMAIN midi_objects[k]} : k \in DOMAIN midi_objects}

\* The places <<k, j>> of the input instruments named x.
PlacesOf(x) ==
    UNION {{<<k, j>> : j \in {j \in DOMAIN midi_objects[k] : midi_objects[k][j].name = x}} :
              k \in DOMAIN midi_objects}

\* The output tracks named x.
TracksNamed(x) == {i \in DOMAIN merge_ret.result : merge_ret.result[i].name = x}

\* The places <<k, j, i>> of the sounding notes of the input instruments named x.
SoundingPlaces(x) ==
    UNION {{<<kj[1], kj[2], i>> :
               i \in {i \in DOMAIN midi_objects[kj[1]][kj[2]].notes :
                         midi_objects[kj[1]][kj[2]].notes[i].velocity > 0}} :
              kj \in PlacesOf(x)}

\* The note at place <<k, j, i>> with start and end increased by shift_k.
Image(place) ==
    LET n == midi_objects[place[1]][place[2]].notes[place[3]]
    IN  Note(n.start + ShiftOf(place[1]), n.end + ShiftOf(place[1]), n.pitch, n.velocity)

Occurrences(s, v) == Cardinality({i \in DOMAIN s : s[i] = v})

C4_OneTrackPerName ==
    MergeReturned =>
        /\ Len(merge_ret.result) = Cardinality(InputNames)
        /\ {merge_ret.result[i].name : i \in DOMAIN merge_ret.result} = InputNames
        /\ \A i, j \in DOMAIN merge_ret.result :
              i < j => NameRank(merge_ret.result[i].name) < NameRank(merge_ret.result[j].name)

\* "lead" comes before "bass" in the input, a name occurs twice in one document
\* and again in the other, and the output holds two tracks.
C4_Witness ==
    /\ MergeReturned
    /\ Len(midi_objects) = 2
    /\ Len(midi_objects[1]) = 2
    /\ midi_objects[1][1].name = "lead"
    /\ midi_objects[1][2].name = "lead"
    /\ Len(midi_objects[2]) = 2
    /\ midi_objects[2][1].name = "lead"
    /\ midi_objects[2][2].name = "bass"
    /\ Len(merge_ret.result) = 2

\* The control changes of the input instruments named x, in number.
\* The places <<k, j, i>> of the control changes of the input instruments named x.
ControlPlaces(x) ==
    UNION {{<<kj[1], kj[2], i>> : i \in DOMAIN midi_objects[kj[1]][kj[2]].control_changes} :
              kj \in PlacesOf(x)}

InputControlChanges(x) == Cardinality(ControlPlaces(x))

\* C5: every track of a merge that returned holds exactly one trailing-silence
\* marker pair, T being the final value of the cursor: exactly one note of
\* velocity <= 0, which is the note of velocity 0 and pitch 1 from T to
\* T + trailing_silence, and, after the control changes carried from the input,
\* exactly one further control change, number 7 with value 0 at T + trailing_silence.
C5_OneTrailingMarkerPair ==
    MergeReturned =>
        \A i \in DOMAIN merge_ret.result :
            LET track == merge_ret.result[i]
                end == FinalTime + merge_args.trailing_silence_in_sec
            IN  /\ \A n \in Range(track.notes) :
                      n.velocity <= 0 => n = Note(FinalTime, end, 1, 0)
                /\ Occurrences(track.notes, Note(FinalTime, end, 1, 0)) = 1
                /\ Len(track.control_changes) = InputControlChanges(track.name) + 1
                /\ track.control_changes[Len(track.control_changes)] = ControlChange(7, 0, end)
                /\ \A c \in 1..(Len(track.control_changes) - 1) :
                      \E kj \in PlacesOf(track.name) :
                          \E cc \in Range(midi_objects[kj[1]][kj[2]].control_changes) :
                              track.control_changes[c]
                                  = ControlChange(cc.number, cc.value, cc.time + ShiftOf(kj[1]))

\* Two documents with silent notes of pitch 1 and control changes in the input,
\* merged into two tracks with a trailing silence after a cursor that moved.
C5_Witness ==
    /\ MergeReturned
    /\ Len(midi_objects) = 2
    /\ Len(merge_ret.result) = 2
    /\ merge_args.trailing_silence_in_sec > 0
    /\ FinalTime > 2
    /\ \E k \in DOMAIN midi_objects : \E j \in DOMAIN midi_objects[k] :
          /\ \E n \in Range(midi_objects[k][j].notes) : n.velocity = 0 /\ n.pitch = 1
    /\ \E k \in DOMAIN midi_objects : \E j \in DOMAIN midi_objects[k] :
          \E cc \in Range(midi_objects[k][j].control_changes) : cc.number = 7 /\ cc.value = 0

\* The times of the events of the output: note starts and ends, control changes.
OutputTimes ==
    UNION {{n.start : n \in Range(merge_ret.result[i].notes)}
              \cup {n.end : n \in Range(merge_ret.result[i].notes)}
              \cup {c.time : c \in Range(merge_ret.result[i].control_changes)} :
           i \in DOMAIN merge_ret.result}

MarkerEnd == FinalTime + merge_args.trailing_silence_in_sec

\* C6 as stated: for every merge that returned, negative gaps included, the
\* latest time of any event of the output is current_time + trailing_silence,
\* the end of the trailing-silence marker.
C6_MarkerEndsTheOutput ==
    MergeReturned => SetMax(OutputTimes) = MarkerEnd

\* No input control change lies after the last sounding note of its document.
ControlsWithinDocuments ==
    \A k \in DOMAIN midi_objects : \A j \in DOMAIN midi_objects[k] :
        \A c \in Range(midi_objects[k][j].control_changes) : c.time <= DocEnd(k)

\* C6 amended: for every merge that returned whose gaps are all >= 0, whose
\* trailing silence is >= 0 and whose input control changes lie no later than
\* the end of the last sounding note of their document, the latest time of any
\* event of the output is current_time + trailing_silence, the end of the
\* trailing-silence marker.
C6_MarkerEndsTheOutputForward ==
    (/\ MergeReturned
     /\ \A g \in DOMAIN Gaps : Gaps[g] >= 0
     /\ merge_args.trailing_silence_in_sec >= 0
     /\ ControlsWithinDocuments)
        => SetMax(OutputTimes) = MarkerEnd

\* Two documents with control changes are merged after a positive gap that was
\* supplied, with a trailing silence.
C6_Witness ==
    /\ MergeReturned
    /\ Len(midi_objects) = 2
    /\ ~merge_args.caesuras_in_sec.isNone
    /\ \A g \in DOMAIN Gaps : Gaps[g] > 0
    /\ merge_args.trailing_silence_in_sec > 0
    /\ ControlsWithinDocuments
    /\ \A k \in DOMAIN midi_objects : \E j \in DOMAIN midi_objects[k] :
          midi_objects[k][j].control_changes # <<>>
    /\ SetMax(OutputTimes) = MarkerEnd

\* C7 as stated: after a merge that returned, every control change and every
\* pitch bend of every instrument named x of document k is in the output track
\* named x with its time increased by shift_k and its other fields unchanged,
\* whether or not the instrument has a sounding note.
C7_ControlsAndBendsShifted ==
    MergeReturned =>
        \A x \in InputNames : \A kj \in PlacesOf(x) : \A t \in TracksNamed(x) :
            LET instrument == midi_objects[kj[1]][kj[2]]
                track == merge_ret.result[t]
            IN  /\ \A c \in Range(instrument.control_changes) :
                      ControlChange(c.number, c.value, c.time + ShiftOf(kj[1]))
                          \in Range(track.control_changes)
                /\ \A b \in Range(instrument.pitch_bends) :
                      PitchBend(b.pitch, b.time + ShiftOf(kj[1]))
                          \in Range(track.pitch_bends)

MergeCalled == merge_ret # NotCalled

\* C10: merge_midi_objects fails with the shape-mismatch error, returning no
\* document, exactly when the list of gaps has a length other than
\* len(documents) - 1, whatever the sign of the gaps. (Without a list the gaps
\* are the default, one zero between any two successive documents; with no
\* document at all no list has the length -1, the default neither.)
C10_GapCountChecked ==
    MergeCalled =>
        /\ (merge_ret.raised = "caesuras_length") <=> (Len(Gaps) # Len(midi_objects) - 1)
        /\ merge_ret.raised = "caesuras_length" => merge_ret.result = <<>>

\* Two gaps, one of them negative, are supplied for two documents.
C10_Witness ==
    /\ MergeCalled
    /\ Len(midi_objects) = 2
    /\ ~merge_args.caesuras_in_sec.isNone
    /\ Len(merge_args.caesuras_in_sec.val) = 2
    /\ \E g \in DOMAIN Gaps : Gaps[g] < 0
    /\ merge_ret.raised = "caesuras_length"

\* The count of the gaps of the call is the one merge_midi_objects accepts.
GapCountValid == Len(Gaps) = Len(midi_objects) - 1

\* Document k has no note of velocity > 0 / has an instrument of empty name.
DocEmpty(k) == DocSounding(k) = {}
DocUnnamed(k) == \E j \in DOMAIN midi_objects[k] : midi_objects[k][j].name = ""

\* C11: given a valid gap count, merge_midi_objects raises the empty-document
\* error if and only if at least one input document has no note of velocity > 0
\* in any of its instruments.
C11_EmptyErrorIffEmptyDocument ==
    MergeCalled /\ GapCountValid =>
        ((merge_ret.raised = "empty_document") <=> (\E k \in DOMAIN midi_objects : DocEmpty(k)))

\* C11 (amended): given a valid gap count, merge_midi_objects raises the
\* empty-document error if and only if some input document has no note of
\* velocity > 0 and no document before it has an instrument of empty name; a
\* document whose notes all have velocity <= 0 counts as empty.
C11_EmptyErrorIffFirstFailure ==
    MergeCalled /\ GapCountValid =>
        ((merge_ret.raised = "empty_document") <=>
            (\E k \in DOMAIN midi_objects :
                DocEmpty(k) /\ \A i \in 1..(k - 1) : ~DocUnnamed(i)))

\* The second of two documents has notes, all of them of velocity <= 0, and
\* the first document is in order: the empty-document error was raised.
C11_Witness ==
    /\ MergeCalled /\ GapCountValid
    /\ Len(midi_objects) = 2
    /\ ~DocEmpty(1) /\ ~DocUnnamed(1)
    /\ DocEmpty(2)
    /\ \E j \in DOMAIN midi_objects[2] : midi_objects[2][j].notes # <<>>
    /\ merge_ret.raised = "empty_document"

\* C12: if any input document has an instrument of empty name, the call fails
\* and returns no document, whatever the position of that document and whatever
\* else the call is given.
C12_UnnamedInstrumentFailsTheCall ==
    MergeCalled /\ (\E k \in DOMAIN midi_objects : DocUnnamed(k)) =>
        merge_ret.raised # "" /\ merge_ret.result = <<>>

\* The second document holds a named and an unnamed instrument, the first
\* document is in order, and the call failed for the missing name.
C12_Witness ==
    /\ MergeCalled
    /\ Len(midi_objects) = 2
    /\ ~DocUnnamed(1)
    /\ DocUnnamed(2)
    /\ \E j \in DOMAIN midi_objects[2] : midi_objects[2][j].name # ""
    /\ merge_ret.raised = "unnamed_instrument"
    /\ merge_ret.result = <<>>

\* The mapping of the call, the empty one if none was given.
CallPrograms ==
    IF merge_args.instrument_name_to_program.isNone
    THEN <<>> ELSE merge_args.instrument_name_to_program.val

\* The first input instrument named x in document order.
FirstNamed(x) ==
    LET first == CHOOSE p \in PlacesOf(x) :
                     \A q \in PlacesOf(x) :
                         p[1] < q[1] \/ (p[1] = q[1] /\ p[2] <= q[2])
    IN  midi_objects[first[1]][first[2]]

\* C13: every output track has the program instrument_name_to_program[name]
\* when its name is a key of the mapping, whatever program in 0..127 the name is
\* mapped to, and otherwise the program of the first input instrument of that
\* name; its is_drum is always that of the first input instrument of that name.
C13_ProgramFromMappingOrFirst ==
    MergeReturned =>
        \A i \in DOMAIN merge_ret.result :
            LET track == merge_ret.result[i]
                first == FirstNamed(track.name)
            IN  /\ track.program =
                       IF track.name \in DOMAIN CallPrograms
                       THEN CallPrograms[track.name] ELSE first.program
                /\ track.is_drum = first.is_drum

\* Place q comes before place p in a stable sort by (start, pitch): its
\* shifted note has the smaller key or, with equal keys, q was inserted first
\* (documents in order, their instruments in order, their notes in order).
PlaceBefore(q, p) ==
    \/ Image(q).start < Image(p).start
    \/ Image(q).start = Image(p).start /\ Image(q).pitch < Image(p).pitch
    \/ /\ Image(q).start = Image(p).start /\ Image(q).pitch = Image(p).pitch
       /\ \/ q[1] < p[1]
          \/ q[1] = p[1] /\ q[2] < p[2]
          \/ q[1] = p[1] /\ q[2] = p[2] /\ q[3] < p[3]

\* The shifted sounding notes of the instruments named x, sorted.
ExpectedSounding(x) ==
    LET places == SoundingPlaces(x)
        rank(p) == 1 + Cardinality({q \in places : PlaceBefore(q, p)})
    IN  [r \in 1..Cardinality(places) |-> Image(CHOOSE p \in places : rank(p) = r)]

\* The trailing-silence marker note of the call.
MarkerNote ==
    Note(FinalTime, FinalTime + merge_args.trailing_silence_in_sec, 1, 0)

\* A sequence without its item m.
Without(s, m) == [i \in 1..(Len(s) - 1) |-> IF i < m THEN s[i] ELSE s[i + 1]]

\* The keys (start, pitch) of a sequence of notes never descend.
Ascending(notes) ==
    \A i, j \in DOMAIN notes :
        i < j => \/ notes[i].start < notes[j].start
                 \/ notes[i].start = notes[j].start /\ notes[i].pitch <= notes[j].pitch

NotesHaveDuration ==
    \A k \in DOMAIN midi_objects : \A n \in DocSounding(k) : n.start < n.end

InputTimes ==
    UNION {UNION {{n.start : n \in Range(midi_objects[k][j].notes)}
                     \cup {n.end : n \in Range(midi_objects[k][j].notes)}
                     \cup {c.time : c \in Range(midi_objects[k][j].control_changes)} :
                  j \in DOMAIN midi_objects[k]} :
           k \in DOMAIN midi_objects}

\* C16: when the opening silence and every gap are non-negative and no input
\* event has a negative time, no note and no control event of the returned
\* document has a negative time; in particular a control event before the first
\* sounding note of its document is not moved before time 0.
C16_NoNegativeTimes ==
    (/\ MergeReturned
     /\ merge_args.opening_silence_in_sec >= 0
     /\ \A g \in DOMAIN Gaps : Gaps[g] >= 0
     /\ \A time \in InputTimes : time >= 0)
        => \A time \in OutputTimes : time >= 0

----------------------------------------------------------------------------
(* Claims about read_wav_file.                                             *)

WavCalled == wav_ret # NotCalled

\* C14: read_wav_file fails with the sample-rate-mismatch error, returning no
\* timeline, whenever the frame rate of the file differs from the expected one,
\* and every timeline it returns has exactly 2 channels whatever the channel
\* count of the file; a file of one channel is returned as two identical channels.
C14_TwoChannelsOrRateError ==
    WavCalled =>
        IF wav_file.frame_rate # frame_rate
        THEN wav_ret.raised = "frame_rate" /\ wav_ret.result = <<>>
        ELSE /\ wav_ret.raised = ""
             /\ wav_ret.result.shape[1] = 2
             /\ wav_file.n_channels = 1 =>
                    /\ wav_ret.result.data[1] = wav_ret.result.data[2]
                    /\ wav_ret.result.data[1] =
                           [t \in DOMAIN wav_file.frames |-> wav_file.frames[t][1]]

====
